---- MODULE Spec2Model ----
(***************************************************************************)
(* Model of embedded-runner: the orchestrator run_gdb_sequence             *)
(* (src/src/lib.rs) with the debug process it supervises, the decode       *)
(* thread read_defmt_frames (src/src/defmt.rs) with the stream it reads,   *)
(* the extractor coverage_from_defmt_frames (src/src/coverage.rs), and     *)
(* run_cmd and main around them (src/src/lib.rs, src/src/main.rs); and     *)
(* the collect command (src/src/collect.rs).                               *)
(***************************************************************************)
EXTENDS Integers, Sequences, FiniteSets, TLC

VARIABLES
    pc,            \* position of run_gdb_sequence
    gdb,           \* the spawned debug process: none / running / exited / killed
    exit_ok,       \* ExitStatus::success() of the process once it exited
    kill_called,   \* gdb.kill() was called
    gdb_output,    \* diagnostic output the process has still to write
    pipe,          \* bytes written to the stderr pipe and not yet read
    stderr,        \* the stderr pipe: open / closed / fault / unused (after the scan)
    content,       \* lib.rs `content`: bytes read by the readiness scan
    elapsed,       \* Instant::now() - start, in ms
    end_signal,    \* the shared AtomicBool
    gdb_result,    \* lib.rs `gdb_result`
    defmt_frames,  \* lib.rs `defmt_frames`, assigned from the joined thread
    result,        \* return value of run_gdb_sequence
    log,           \* events of the run, in order
    dpc,           \* position of the decode thread
    platform,      \* build target, decides the ErrorKind of a read timeout
    can_recover,   \* table.encoding().can_recover()
    connected,     \* a connection to the log transport was attempted / made
    retries,       \* refused attempts of the connector so far
    tcp,           \* the stream: open / closed (peer closed)
    rx,            \* every byte the stream delivered so far
    dbuf,          \* buffer of the stream decoder
    json_frames,   \* defmt.rs `json_frames`
    lastRead,      \* outcome of the last stream.read
    dres,          \* return value of read_defmt_frames
    cpc,               \* position of coverage_from_defmt_frames
    debug_assertions,  \* the build checks debug_assert!
    frames,            \* the frames of the slice the loop has taken so far
    current_test,      \* coverage.rs `current_test`: <<>> is None
    covered_traces,    \* coverage.rs `covered_traces`
    tests,             \* test_run.tests
    nr_of_tests,       \* test_run.nr_of_tests
    origin,            \* for every entry of tests, the frames that opened and closed it
    cresult,           \* return value of coverage_from_defmt_frames
    rpc,           \* position of main, run and run_cmd
    fs,            \* the files the run has written, in order
    rresult,       \* return value of run
    errlog,        \* what main logged with log::error!
    exit_code,     \* exit code of the process: <<>> while it runs
    kpc,             \* position of collect::run
    coverages_file,  \* the index file: <<>> if it does not exist, else its lines
    on_disk,         \* the coverage files that exist
    cfg_output,      \* cfg.output
    output_file,     \* the output file: <<>> if it does not exist, else its content
    coverages,       \* collect.rs `coverages.test_runs`
    line_no,         \* the line of the index the loop is at
    kresult          \* return value of collect::run

ovars == <<pc, gdb, exit_ok, kill_called, gdb_output, pipe, stderr, content,
           elapsed, end_signal, gdb_result, defmt_frames, result, log>>
dvars == <<dpc, platform, can_recover, connected, retries, tcp, rx, dbuf, json_frames,
           lastRead, dres>>
cvars == <<cpc, debug_assertions, frames, current_test, covered_traces, tests,
           nr_of_tests, origin, cresult>>
rvars == <<rpc, fs, rresult, errlog, exit_code>>
kvars == <<kpc, coverages_file, on_disk, cfg_output, output_file, coverages,
           line_no, kresult>>
vars == <<pc, gdb, exit_ok, kill_called, gdb_output, pipe, stderr, content,
          elapsed, end_signal, gdb_result, defmt_frames, result, log,
          dpc, platform, can_recover, connected, retries, tcp, rx, dbuf,
          json_frames, lastRead, dres,
          cpc, debug_assertions, frames, current_test, covered_traces, tests,
          nr_of_tests, origin, cresult,
          rpc, fs, rresult, errlog, exit_code,
          kpc, coverages_file, on_disk, cfg_output, output_file, coverages,
          line_no, kresult>>

----------------------------------------------------------------------------
(* Program constants *)

\* lib.rs:417  let mut buf = [0; 100];
BufSize == 100
\* lib.rs:439  > 12000  (readiness scan)
SetupTimeout == 12000
\* lib.rs:472  > 12000  (process-exit wait)
ExecTimeout == 12000
\* defmt.rs:49 READ_BUFFER_SIZE
READ_BUFFER_SIZE == 1024
\* lib.rs:419  b"for rtt connection"
rtt_start == <<102, 111, 114, 32, 114, 116, 116, 32, 99, 111, 110, 110, 101,
               99, 116, 105, 111, 110>>

(* Bounds of the model *)

\* the clock advances in steps of TickMs
TickMs == 13000
\* bytes the log transport delivers in one run
MaxBytes == 4
\* bytes one stream read delivers
MaxChunk == 2
\* connection attempts that are refused before the connector gives up
MaxConnectRetries == 1
\* frames in the slice handed to coverage_from_defmt_frames
MaxFrames == 4
\* lines in the index file of the collect command
MaxIndex == 2

----------------------------------------------------------------------------
(* Helpers *)

Min(a, b) == IF a < b THEN a ELSE b

\* usize::saturating_sub
SatSub(a, b) == IF a > b THEN a - b ELSE 0

\* <[u8]>::ends_with
EndsWith(s, suffix) ==
    /\ Len(s) >= Len(suffix)
    /\ SubSeq(s, Len(s) - Len(suffix) + 1, Len(s)) = suffix

Drop(s, n) == SubSeq(s, n + 1, Len(s))

\* MarkerFound looking at the end of content only
MarkerFound_AtEndOnly(c, n) == EndsWith(c, rtt_start)

\* lib.rs:429-434: the marker ends at one of the last n positions of content
MarkerFound(c, n) ==
    \E i \in 0 .. (n - 1) : EndsWith(SubSeq(c, 1, SatSub(Len(c), i)), rtt_start)

\* diagnostic outputs of the debug process: the marker between other bytes,
\* the marker after a false start, and an output that stops short of it
Outputs ==
    { <<42>> \o rtt_start \o <<10>>,
      <<102, 111>> \o rtt_start,
      SubSeq(rtt_start, 1, Len(rtt_start) - 1) \o <<10>> }

NoResult == [tag |-> "None", err |-> "", frames |-> <<>>, exit |-> "", ok |-> FALSE]
ErrResult(e) == [tag |-> "Err", err |-> e, frames |-> <<>>, exit |-> "", ok |-> FALSE]
OkResult(f, g) == [tag |-> "Ok", err |-> g.err, frames |-> f, exit |-> g.tag, ok |-> g.ok]

NoGdbResult == [tag |-> "None", err |-> "", ok |-> FALSE]

NoDres == [tag |-> "None", err |-> "", frames |-> <<>>]

NoRead == [ev |-> "none", kind |-> "", n |-> 0]

----------------------------------------------------------------------------
(* The stream decoder (defmt_decoder::StreamDecoder) over frames that are   *)
(* delimited by a zero byte: a span of exactly one byte k > 0 is frame k,   *)
(* any other span is malformed.                                             *)

\* the delimiter and the payload bytes of two different frames
Byte == {0, 1, 2}

Chunks == UNION { [1 .. n -> Byte] : n \in 1 .. MaxChunk }

RECURSIVE FirstZero(_, _)
FirstZero(s, i) ==
    IF i > Len(s) THEN 0
    ELSE IF s[i] = 0 THEN i
    ELSE FirstZero(s, i + 1)

\* stream_decoder.decode()
StreamDecode(b) ==
    LET z == FirstZero(b, 1) IN
    IF z = 0 THEN [r |-> "UnexpectedEof", frame |-> 0, rest |-> b]
    ELSE IF z = 2 THEN [r |-> "Ok", frame |-> b[1], rest |-> Drop(b, z)]
    ELSE [r |-> "Malformed", frame |-> 0, rest |-> Drop(b, z)]

\* std::io::ErrorKind of a failed stream.read: a read that hits the timeout
\* set by set_read_timeout fails with WouldBlock on Unix and TimedOut on
\* Windows
ErrorKind(ev) ==
    CASE ev = "timeout" -> IF platform = "unix" THEN "WouldBlock" ELSE "TimedOut"
      [] ev = "reset" -> "ConnectionReset"
      [] ev = "aborted" -> "ConnectionAborted"
      [] ev = "broken" -> "BrokenPipe"
      [] OTHER -> ""

----------------------------------------------------------------------------
(* The frames coverage_from_defmt_frames works on, and its data             *)

\* Option<T>: <<>> is None, <<v>> is Some(v)
None == <<>>
Some(v) == <<v>>

\* HashMap::new()
EmptyMap == [x \in {} |-> {}]

NoCresult == [tag |-> "None", err |-> "", msg |-> "", test_runs |-> <<>>]

FullLocation == [file |-> Some("tests.rs"), line |-> Some(7), module_path |-> Some("app")]

\* the location of a frame with one of its parts missing
LocationWithout(part) ==
    CASE part = "file" -> [FullLocation EXCEPT !.file = None]
      [] part = "line" -> [FullLocation EXCEPT !.line = None]
      [] part = "module_path" -> [FullLocation EXCEPT !.module_path = None]
      [] OTHER -> FullLocation

NoData == [kind |-> "other", nr_tests |-> 0, state |-> "", fn_name |-> "",
           file |-> "", line |-> 0, id |-> ""]

\* a frame whose text matches the test-marker pattern (coverage.rs:59):
\* "(i/N) running `name`..." or "(i/N) ignoring `name`..."
TestMarker(state, fn_name, nr_tests, location) ==
    [data |-> [NoData EXCEPT !.kind = "test", !.state = state,
                             !.fn_name = fn_name, !.nr_tests = nr_tests],
     location |-> location]

\* a frame in whose text extract_first_coverage finds a covered requirement
CoverageMarker(file, line, id) ==
    [data |-> [NoData EXCEPT !.kind = "coverage", !.file = file, !.line = line,
                             !.id = id],
     location |-> FullLocation]

\* the frame "all tests passed!"
TerminalFrame == [data |-> [NoData EXCEPT !.kind = "terminal"], location |-> FullLocation]

\* any other log line
OtherFrame == [data |-> NoData, location |-> FullLocation]

\* the frames a run can hold: the markers of two tests, of which B is also
\* announced with another total, markers that lack a part of their location,
\* coverage markers that share a file and line, a file only, or nothing,
\* the terminal frame and another log line
FrameAlphabet ==
    { TestMarker(st, nm, 2, FullLocation) :
        st \in {"running", "ignoring"}, nm \in {"A", "B"} }
    \cup { TestMarker("running", "B", 1, FullLocation) }
    \cup { TestMarker(st, "A", 2, LocationWithout(part)) :
             st \in {"running", "ignoring"},
             part \in {"file", "line", "module_path"} }
    \cup { CoverageMarker("a.rs", 10, "R1"), CoverageMarker("a.rs", 10, "R2"),
           CoverageMarker("a.rs", 20, "R1"), CoverageMarker("b.rs", 10, "R1") }
    \cup { TerminalFrame, OtherFrame }

\* TestState
Passed == [tag |-> "Passed", reason |-> None]
Failed == [tag |-> "Failed", reason |-> None]
Skipped(reason) == [tag |-> "Skipped", reason |-> reason]

\* coverage.rs:117-127: the name is the module path and the function name
TestFnName(frame) == <<frame.location.module_path[1], frame.data.fn_name>>

\* coverage.rs:131, 134
NewTest(frame, state) ==
    [name |-> TestFnName(frame), filepath |-> frame.location.file[1],
     line |-> frame.location.line[1], state |-> state, covered_files |-> {}]

\* InsertTrace with the id replacing the ids of the line
InsertTrace_Overwrites(m, file, line, id) ==
    LET lines == IF file \in DOMAIN m THEN m[file] ELSE EmptyMap
        lines1 == [l \in DOMAIN lines \cup {line} |->
                     IF l = line THEN {id} ELSE lines[l]]
    IN  [f \in DOMAIN m \cup {file} |-> IF f = file THEN lines1 ELSE m[f]]

\* coverage.rs:144-149: entry(file).or_default().entry(line).or_default().insert(id)
InsertTrace(m, file, line, id) ==
    LET lines == IF file \in DOMAIN m THEN m[file] ELSE EmptyMap
        ids == IF line \in DOMAIN lines THEN lines[line] ELSE {}
        lines1 == [l \in DOMAIN lines \cup {line} |->
                     IF l = line THEN ids \cup {id} ELSE lines[l]]
    IN  [f \in DOMAIN m \cup {file} |-> IF f = file THEN lines1 ELSE m[f]]

\* drain_covered_traces with one CoveredFile for every line of a file
drain_covered_traces_PerLine(m) ==
    UNION { { [filepath |-> f,
               covered_traces |-> { [line |-> l, req_ids |-> m[f][l]] }] :
              l \in DOMAIN m[f] } : f \in DOMAIN m }

\* coverage.rs:165-185: the CoveredFile entries of the map; a HashMap hands
\* them out in no particular order, so the list is kept as the set of its
\* entries, and so are the traces of a file and the ids of a trace
drain_covered_traces(m) ==
    { [filepath |-> f,
       covered_traces |-> { [line |-> l, req_ids |-> m[f][l]] : l \in DOMAIN m[f] }] :
      f \in DOMAIN m }

----------------------------------------------------------------------------
\* the runner before run_gdb_sequence is called
RunnerInit ==
    /\ pc = "spawn"
    /\ gdb = "none"
    /\ exit_ok = FALSE
    /\ kill_called = FALSE
    /\ gdb_output = <<>>
    /\ pipe = <<>>
    /\ stderr = "open"
    /\ content = <<>>
    /\ elapsed = 0
    /\ end_signal = FALSE
    /\ gdb_result = NoGdbResult
    /\ defmt_frames = <<>>
    /\ result = NoResult
    /\ log = <<>>
    /\ dpc = "idle"
    /\ platform \in {"unix", "windows"}
    /\ can_recover = FALSE
    /\ connected = "no"
    /\ retries = 0
    /\ tcp = "open"
    /\ rx = <<>>
    /\ dbuf = <<>>
    /\ json_frames = <<>>
    /\ lastRead = NoRead
    /\ dres = NoDres
    /\ rpc = "setup"
    /\ fs = <<>>
    /\ rresult = [tag |-> "None", err |-> ""]
    /\ errlog = <<>>
    /\ exit_code = None

\* the locals of coverage_from_defmt_frames as the function declares them
\* (coverage.rs:64-73)
ExtractorLocals ==
    /\ frames = <<>>
    /\ current_test = <<>>
    /\ covered_traces = EmptyMap
    /\ tests = <<>>
    /\ nr_of_tests = 0
    /\ origin = <<>>
    /\ cresult = NoCresult

\* no collect command is run
CollectIdle ==
    /\ kpc = "idle"
    /\ coverages_file = None
    /\ on_disk = {}
    /\ cfg_output = None
    /\ output_file = None
    /\ coverages = <<>>
    /\ line_no = 1
    /\ kresult = [tag |-> "None", err |-> ""]

Init ==
    /\ RunnerInit
    /\ cpc = "idle"
    /\ debug_assertions = FALSE
    /\ ExtractorLocals
    /\ CollectIdle

\* a call of coverage_from_defmt_frames, in a build with or without
\* debug assertions
InitCov ==
    /\ RunnerInit
    /\ cpc = "loop"
    /\ debug_assertions \in BOOLEAN
    /\ ExtractorLocals
    /\ CollectIdle

----------------------------------------------------------------------------
(* The debug process and the clock *)

\* the process writes the next k bytes of its diagnostic output
GdbEmit ==
    /\ gdb = "running" /\ stderr = "open" /\ gdb_output # <<>>
    /\ \E k \in 1 .. Len(gdb_output) :
          /\ pipe' = pipe \o SubSeq(gdb_output, 1, k)
          /\ gdb_output' = Drop(gdb_output, k)
    /\ UNCHANGED <<pc, gdb, exit_ok, kill_called, stderr, content, elapsed,
                   end_signal, gdb_result, defmt_frames, result, log>>
    /\ UNCHANGED dvars
    /\ UNCHANGED cvars
    /\ UNCHANGED rvars
    /\ UNCHANGED kvars

\* the process exits on its own; its end of the pipe closes
GdbExit ==
    /\ gdb = "running"
    /\ gdb' = "exited"
    /\ exit_ok' \in BOOLEAN
    /\ stderr' = IF stderr = "open" THEN "closed" ELSE stderr
    /\ UNCHANGED <<pc, kill_called, gdb_output, pipe, content, elapsed,
                   end_signal, gdb_result, defmt_frames, result, log>>
    /\ UNCHANGED dvars
    /\ UNCHANGED cvars
    /\ UNCHANGED rvars
    /\ UNCHANGED kvars

\* reading the pipe starts to fail
StderrFault ==
    /\ pc = "scan" /\ stderr # "fault"
    /\ stderr' = "fault"
    /\ UNCHANGED <<pc, gdb, exit_ok, kill_called, gdb_output, pipe, content,
                   elapsed, end_signal, gdb_result, defmt_frames, result, log>>
    /\ UNCHANGED dvars
    /\ UNCHANGED cvars
    /\ UNCHANGED rvars
    /\ UNCHANGED kvars

\* time passes while the orchestrator measures it
Tick ==
    /\ pc \in {"scan", "wait"}
    /\ elapsed <= SetupTimeout /\ elapsed <= ExecTimeout
    /\ elapsed' = elapsed + TickMs
    /\ UNCHANGED <<pc, gdb, exit_ok, kill_called, gdb_output, pipe, stderr,
                   content, end_signal, gdb_result, defmt_frames, result, log>>
    /\ UNCHANGED dvars
    /\ UNCHANGED cvars
    /\ UNCHANGED rvars
    /\ UNCHANGED kvars

----------------------------------------------------------------------------
(* run_gdb_sequence *)

\* gdb.kill(): ends a running process, has no effect on one that exited
Killed(g) == IF g = "running" THEN "killed" ELSE g

\* lib.rs:402-422
Spawn ==
    /\ rpc = "sequence"
    /\ pc = "spawn"
    /\ gdb' = "running"
    /\ gdb_output' \in Outputs
    /\ elapsed' = 0
    /\ pc' = "scan"
    /\ log' = Append(log, "spawned")
    /\ UNCHANGED <<exit_ok, kill_called, pipe, stderr, content, end_signal,
                   gdb_result, defmt_frames, result>>
    /\ UNCHANGED dvars
    /\ UNCHANGED cvars
    /\ UNCHANGED rvars
    /\ UNCHANGED kvars

\* lib.rs:423-445, one iteration of the 'outer loop.  The read blocks while
\* the pipe is open and empty.  After the loop neither the pipe nor content
\* is used again, so the model stops tracking them (stderr = "unused").
ScanRead ==
    /\ pc = "scan"
    /\ \/ /\ stderr = "fault"                      \* read returns Err: loop ends
          /\ pc' = "spawn_thread"
          /\ log' = Append(log, "scan_read_failed")
          /\ content' = <<>> /\ pipe' = <<>> /\ gdb_output' = <<>>
          /\ stderr' = "unused"
          /\ UNCHANGED <<gdb, kill_called, result>>
       \/ /\ stderr # "fault" /\ pipe # <<>>       \* n > 0
          /\ LET n == Min(Len(pipe), BufSize)
                 c == content \o SubSeq(pipe, 1, n)
             IN IF MarkerFound(c, n)
                THEN /\ pc' = "spawn_thread"
                     /\ log' = Append(log, "marker_seen")
                     /\ content' = <<>> /\ pipe' = <<>> /\ gdb_output' = <<>>
                     /\ stderr' = "unused"
                ELSE /\ pc' = pc
                     /\ log' = log
                     /\ content' = c
                     /\ pipe' = Drop(pipe, n)
                     /\ gdb_output' = gdb_output
                     /\ stderr' = stderr
          /\ UNCHANGED <<gdb, kill_called, result>>
       \/ /\ stderr = "closed" /\ pipe = <<>>      \* n = 0
          /\ IF elapsed > SetupTimeout
             THEN /\ gdb' = Killed(gdb)
                  /\ kill_called' = TRUE
                  /\ result' = ErrResult("RttTimeout")
                  /\ pc' = "ret"
                  /\ log' = Append(log, "scan_timeout")
                  /\ content' = <<>> /\ pipe' = <<>> /\ gdb_output' = <<>>
                  /\ stderr' = "unused"
             ELSE UNCHANGED <<gdb, kill_called, result, pc, log, content,
                              pipe, gdb_output, stderr>>
    /\ UNCHANGED <<exit_ok, elapsed, end_signal, gdb_result, defmt_frames>>
    /\ UNCHANGED dvars
    /\ UNCHANGED cvars
    /\ UNCHANGED rvars
    /\ UNCHANGED kvars

\* lib.rs:449  Arc::new(AtomicBool::new(false))
NewEndSignal == FALSE

\* SpawnThread going on to the store of the flag without the wait loop
SpawnThread_SkipsWait ==
    /\ pc = "spawn_thread"
    /\ end_signal' = NewEndSignal
    /\ dpc' = "connect"
    /\ elapsed' = 0
    /\ pc' = "signal"
    /\ log' = Append(log, "decode_started")
    /\ UNCHANGED <<gdb, exit_ok, kill_called, gdb_output, pipe, stderr,
                   content, gdb_result, defmt_frames, result>>
    /\ UNCHANGED <<platform, can_recover, connected, retries, tcp, rx, dbuf,
                   json_frames, lastRead, dres>>
    /\ UNCHANGED cvars
    /\ UNCHANGED rvars
    /\ UNCHANGED kvars

\* lib.rs:448-459
SpawnThread ==
    /\ pc = "spawn_thread"
    /\ end_signal' = NewEndSignal
    /\ dpc' = "connect"
    /\ elapsed' = 0
    /\ pc' = "wait"
    /\ log' = Append(log, "decode_started")
    /\ UNCHANGED <<gdb, exit_ok, kill_called, gdb_output, pipe, stderr,
                   content, gdb_result, defmt_frames, result>>
    /\ UNCHANGED <<platform, can_recover, connected, retries, tcp, rx, dbuf,
                   json_frames, lastRead, dres>>
    /\ UNCHANGED cvars
    /\ UNCHANGED rvars
    /\ UNCHANGED kvars

\* lib.rs:461-487, one iteration of the wait loop up to the kill
TryWait ==
    /\ pc = "wait"
    /\ \/ /\ gdb = "exited"                        \* Ok(Some(exit_code))
          /\ gdb_result' = [tag |-> "Ok", err |-> "", ok |-> exit_ok]
          /\ pc' = "signal"
          /\ log' = Append(log, "exit_observed")
       \/ /\ gdb = "running"                       \* Ok(None)
          /\ IF elapsed > ExecTimeout
             THEN pc' = "wait_kill"
             ELSE pc' = pc
          /\ UNCHANGED <<gdb_result, log>>
       \/ /\ gdb_result' = [tag |-> "Err", err |-> "Gdb", ok |-> FALSE]  \* Err(err)
          /\ pc' = "signal"
          /\ log' = Append(log, "wait_failed")
    /\ UNCHANGED <<gdb, exit_ok, kill_called, gdb_output, pipe, stderr,
                   content, elapsed, end_signal, defmt_frames, result>>
    /\ UNCHANGED dvars
    /\ UNCHANGED cvars
    /\ UNCHANGED rvars
    /\ UNCHANGED kvars

\* lib.rs:474-476
WaitKill ==
    /\ pc = "wait_kill"
    /\ gdb' = Killed(gdb)
    /\ kill_called' = TRUE
    /\ result' = ErrResult("RttTimeout")
    /\ pc' = "ret"
    /\ log' = Append(log, "exec_timeout")
    /\ UNCHANGED <<exit_ok, gdb_output, pipe, stderr, content, elapsed,
                   end_signal, gdb_result, defmt_frames>>
    /\ UNCHANGED dvars
    /\ UNCHANGED cvars
    /\ UNCHANGED rvars
    /\ UNCHANGED kvars

\* lib.rs:490
SignalEnd ==
    /\ pc = "signal"
    /\ end_signal' = TRUE
    /\ pc' = "join"
    /\ log' = Append(log, "flag_set")
    /\ UNCHANGED <<gdb, exit_ok, kill_called, gdb_output, pipe, stderr,
                   content, elapsed, gdb_result, defmt_frames, result>>
    /\ UNCHANGED dvars
    /\ UNCHANGED cvars
    /\ UNCHANGED rvars
    /\ UNCHANGED kvars

\* lib.rs:493-501: join blocks until the thread has ended
Join ==
    /\ pc = "join"
    /\ dpc \in {"done", "panicked"}
    /\ pc' = "ret"
    /\ IF dpc = "panicked"
       THEN /\ result' = ErrResult("Defmt: Failed waiting for defmt logs.")
            /\ log' = Append(log, "joined")
            /\ UNCHANGED defmt_frames
       ELSE IF dres.tag = "Err"
       THEN /\ result' = ErrResult("Defmt: Failed extracting defmt logs.")
            /\ log' = Append(log, "joined")
            /\ UNCHANGED defmt_frames
       ELSE /\ defmt_frames' = dres.frames
            /\ result' = OkResult(dres.frames, gdb_result)
            /\ log' = log \o <<"joined", "combined">>
    /\ UNCHANGED <<gdb, exit_ok, kill_called, gdb_output, pipe, stderr,
                   content, elapsed, end_signal, gdb_result>>
    /\ UNCHANGED dvars
    /\ UNCHANGED cvars
    /\ UNCHANGED rvars
    /\ UNCHANGED kvars

----------------------------------------------------------------------------
(* The decode thread *)

DecReturn(r) ==
    /\ dpc' = "done"
    /\ dres' = r

\* the Transport Connector: retry while the connection is refused or times
\* out, give up after the setup window, fail on any other error
DecConnect ==
    /\ dpc = "connect"
    /\ \E o \in {"connected", "refused", "other"} :
          CASE o = "connected" ->
                 /\ connected' = "yes" /\ retries' = 0
                 /\ dpc' = "table" /\ UNCHANGED dres
            [] o = "refused" ->
                 IF retries >= MaxConnectRetries
                 THEN /\ connected' = "failed" /\ retries' = 0
                      /\ DecReturn([tag |-> "Err", err |-> "TcpConnect", frames |-> <<>>])
                 ELSE /\ connected' = "trying" /\ retries' = retries + 1
                      /\ UNCHANGED <<dpc, dres>>
            [] OTHER ->
                 /\ connected' = "failed" /\ retries' = 0
                 /\ DecReturn([tag |-> "Err", err |-> "TcpConnect", frames |-> <<>>])
    /\ UNCHANGED <<platform, can_recover, tcp, rx, dbuf, json_frames, lastRead>>
    /\ UNCHANGED ovars
    /\ UNCHANGED cvars
    /\ UNCHANGED rvars
    /\ UNCHANGED kvars

\* defmt.rs:33-55
DecLoadTable ==
    /\ dpc = "table"
    /\ \/ /\ can_recover' \in BOOLEAN
          /\ dpc' = "check"
          /\ UNCHANGED dres
       \/ /\ DecReturn([tag |-> "Err", err |-> "MissingDefmt", frames |-> <<>>])
          /\ UNCHANGED can_recover
    /\ UNCHANGED <<platform, connected, retries, tcp, rx, dbuf, json_frames,
                   lastRead>>
    /\ UNCHANGED ovars
    /\ UNCHANGED cvars
    /\ UNCHANGED rvars
    /\ UNCHANGED kvars

\* DecCheck with the load replaced by a swap that clears the flag
DecCheck_ClearsFlag ==
    /\ dpc = "check"
    /\ IF end_signal
       THEN /\ DecReturn([tag |-> "Ok", err |-> "", frames |-> json_frames])
            /\ end_signal' = FALSE
       ELSE /\ dpc' = "read" /\ UNCHANGED <<dres, end_signal>>
    /\ UNCHANGED <<platform, can_recover, connected, retries, tcp, rx, dbuf,
                   json_frames, lastRead>>
    /\ UNCHANGED <<pc, gdb, exit_ok, kill_called, gdb_output, pipe, stderr,
                   content, elapsed, gdb_result, defmt_frames, result, log>>
    /\ UNCHANGED cvars
    /\ UNCHANGED rvars
    /\ UNCHANGED kvars

\* defmt.rs:57-61
DecCheck ==
    /\ dpc = "check"
    /\ IF end_signal
       THEN DecReturn([tag |-> "Ok", err |-> "", frames |-> json_frames])
       ELSE /\ dpc' = "read" /\ UNCHANGED dres
    /\ UNCHANGED <<platform, can_recover, connected, retries, tcp, rx, dbuf,
                   json_frames, lastRead>>
    /\ UNCHANGED ovars
    /\ UNCHANGED cvars
    /\ UNCHANGED rvars
    /\ UNCHANGED kvars

\* what the stream can deliver to the next read
ReadOutcomes ==
    IF tcp = "closed" THEN {[ev |-> "eof", c |-> <<>>]}
    ELSE { [ev |-> "data", c |-> c] :
             c \in {x \in Chunks : /\ Len(rx) + Len(x) <= MaxBytes
                                   /\ Len(x) <= READ_BUFFER_SIZE} }
         \cup { [ev |-> e, c |-> <<>>] :
                  e \in {"eof", "timeout", "reset", "aborted", "broken"} }

\* defmt.rs:63-85
DecRead ==
    /\ dpc = "read"
    /\ \E o \in ReadOutcomes :
          /\ lastRead' = [ev |-> o.ev, kind |-> ErrorKind(o.ev), n |-> Len(o.c)]
          /\ tcp' = IF o.ev = "eof" THEN "closed" ELSE tcp
          /\ rx' = rx \o o.c
          /\ CASE o.ev = "data" ->                    \* Ok(len), len > 0
                    /\ dbuf' = dbuf \o o.c
                    /\ dpc' = "decode"
                    /\ UNCHANGED dres
               [] o.ev = "eof" ->                     \* Ok(0)
                    /\ dpc' = "check"
                    /\ UNCHANGED <<dbuf, dres>>
               [] OTHER ->                            \* Err(err)
                    LET kind == ErrorKind(o.ev) IN
                    IF kind = "TimedOut"
                    THEN /\ dpc' = "check"
                         /\ UNCHANGED <<dbuf, dres>>
                    ELSE IF kind \in {"ConnectionAborted", "ConnectionReset"}
                    THEN /\ DecReturn([tag |-> "Ok", err |-> "", frames |-> json_frames])
                         /\ UNCHANGED dbuf
                    ELSE /\ DecReturn([tag |-> "Err", err |-> "TcpError", frames |-> <<>>])
                         /\ UNCHANGED dbuf
    /\ UNCHANGED <<platform, can_recover, connected, retries, json_frames>>
    /\ UNCHANGED ovars
    /\ UNCHANGED cvars
    /\ UNCHANGED rvars
    /\ UNCHANGED kvars

\* DecDecode with a malformed span ending the decode under every encoding
DecDecode_AbortsOnMalformed ==
    /\ dpc = "decode"
    /\ LET d == StreamDecode(dbuf) IN
       CASE d.r = "Ok" ->
              \/ /\ json_frames' = Append(json_frames, d.frame)
                 /\ dbuf' = d.rest
                 /\ UNCHANGED <<dpc, dres>>
              \/ /\ dpc' = "panicked"
                 /\ UNCHANGED <<json_frames, dbuf, dres>>
         [] d.r = "UnexpectedEof" ->
              /\ dpc' = "check"
              /\ UNCHANGED <<json_frames, dbuf, dres>>
         [] OTHER ->
              /\ DecReturn([tag |-> "Err", err |-> "MalformedFrame", frames |-> <<>>])
              /\ UNCHANGED <<json_frames, dbuf>>
    /\ UNCHANGED <<platform, can_recover, connected, retries, tcp, rx,
                   lastRead>>
    /\ UNCHANGED ovars
    /\ UNCHANGED cvars
    /\ UNCHANGED rvars
    /\ UNCHANGED kvars

\* DecDecode with the bytes of an incomplete frame dropped when the inner
\* loop ends
DecDecode_DropsPartial ==
    /\ dpc = "decode"
    /\ LET d == StreamDecode(dbuf) IN
       CASE d.r = "Ok" ->
              \/ /\ json_frames' = Append(json_frames, d.frame)
                 /\ dbuf' = d.rest
                 /\ UNCHANGED <<dpc, dres>>
              \/ /\ dpc' = "panicked"
                 /\ UNCHANGED <<json_frames, dbuf, dres>>
         [] d.r = "UnexpectedEof" ->
              /\ dpc' = "check"
              /\ dbuf' = <<>>
              /\ UNCHANGED <<json_frames, dres>>
         [] OTHER ->
              IF can_recover
              THEN /\ dbuf' = d.rest
                   /\ UNCHANGED <<json_frames, dpc, dres>>
              ELSE /\ DecReturn([tag |-> "Err", err |-> "MalformedFrame", frames |-> <<>>])
                   /\ UNCHANGED <<json_frames, dbuf>>
    /\ UNCHANGED <<platform, can_recover, connected, retries, tcp, rx,
                   lastRead>>
    /\ UNCHANGED ovars
    /\ UNCHANGED cvars
    /\ UNCHANGED rvars
    /\ UNCHANGED kvars

\* DecDecode keeping only the frame decoded last
DecDecode_KeepsLastOnly ==
    /\ dpc = "decode"
    /\ LET d == StreamDecode(dbuf) IN
       CASE d.r = "Ok" ->
              \/ /\ json_frames' = <<d.frame>>
                 /\ dbuf' = d.rest
                 /\ UNCHANGED <<dpc, dres>>
              \/ /\ dpc' = "panicked"     \* println! fails: the thread panics
                 /\ UNCHANGED <<json_frames, dbuf, dres>>
         [] d.r = "UnexpectedEof" ->
              /\ dpc' = "check"
              /\ UNCHANGED <<json_frames, dbuf, dres>>
         [] OTHER ->
              IF can_recover
              THEN /\ dbuf' = d.rest
                   /\ UNCHANGED <<json_frames, dpc, dres>>
              ELSE /\ DecReturn([tag |-> "Err", err |-> "MalformedFrame", frames |-> <<>>])
                   /\ UNCHANGED <<json_frames, dbuf>>
    /\ UNCHANGED <<platform, can_recover, connected, retries, tcp, rx,
                   lastRead>>
    /\ UNCHANGED ovars
    /\ UNCHANGED cvars
    /\ UNCHANGED rvars
    /\ UNCHANGED kvars

\* defmt.rs:88-166, one iteration of the inner loop
DecDecode ==
    /\ dpc = "decode"
    /\ LET d == StreamDecode(dbuf) IN
       CASE d.r = "Ok" ->
              \/ /\ json_frames' = Append(json_frames, d.frame)
                 /\ dbuf' = d.rest
                 /\ UNCHANGED <<dpc, dres>>
              \/ /\ dpc' = "panicked"     \* println! fails: the thread panics
                 /\ UNCHANGED <<json_frames, dbuf, dres>>
         [] d.r = "UnexpectedEof" ->
              /\ dpc' = "check"
              /\ UNCHANGED <<json_frames, dbuf, dres>>
         [] OTHER ->
              IF can_recover
              THEN /\ dbuf' = d.rest
                   /\ UNCHANGED <<json_frames, dpc, dres>>
              ELSE /\ DecReturn([tag |-> "Err", err |-> "MalformedFrame", frames |-> <<>>])
                   /\ UNCHANGED <<json_frames, dbuf>>
    /\ UNCHANGED <<platform, can_recover, connected, retries, tcp, rx,
                   lastRead>>
    /\ UNCHANGED ovars
    /\ UNCHANGED cvars
    /\ UNCHANGED rvars
    /\ UNCHANGED kvars

----------------------------------------------------------------------------
(* coverage_from_defmt_frames (src/src/coverage.rs), one frame of the slice *)
(* at a time                                                                *)

CovDone(r) ==
    /\ cpc' = "done"
    /\ cresult' = r

MatchError(msg) == [tag |-> "Err", err |-> "Match", msg |-> msg, test_runs |-> <<>>]

\* the frame that opened current_test: the last test marker taken
OpenedAt == CHOOSE i \in 1 .. Len(frames) :
                /\ frames[i].data.kind = "test"
                /\ \A j \in (i + 1) .. Len(frames) : frames[j].data.kind # "test"

\* Finalize without the change of the state
Finalize_KeepsFailed(test, m) ==
    [test EXCEPT !.covered_files = drain_covered_traces(m)]

\* coverage.rs:78-79, 152-153
Finalize(test, m) ==
    [test EXCEPT !.state = Passed, !.covered_files = drain_covered_traces(m)]

\* TakeAndPush reading the accumulator without draining it
TakeAndPush_KeepsTraces ==
    IF current_test # None
    THEN [tests |-> Append(tests, Finalize(current_test[1], covered_traces)),
          origin |-> Append(origin, [opened |-> OpenedAt, closed |-> Len(frames) + 1]),
          covered_traces |-> covered_traces]
    ELSE [tests |-> tests, origin |-> origin, covered_traces |-> covered_traces]

\* TakeAndPush putting the finalized test in front of the tests of the run
TakeAndPush_Prepends ==
    IF current_test # None
    THEN [tests |-> <<Finalize(current_test[1], covered_traces)>> \o tests,
          origin |-> <<[opened |-> OpenedAt, closed |-> Len(frames) + 1]>> \o origin,
          covered_traces |-> EmptyMap]
    ELSE [tests |-> tests, origin |-> origin, covered_traces |-> covered_traces]

\* coverage.rs:77-81, 151-155: if let Some(mut test) = current_test.take()
TakeAndPush ==
    IF current_test # None
    THEN [tests |-> Append(tests, Finalize(current_test[1], covered_traces)),
          origin |-> Append(origin, [opened |-> OpenedAt, closed |-> Len(frames) + 1]),
          covered_traces |-> EmptyMap]
    ELSE [tests |-> tests, origin |-> origin, covered_traces |-> covered_traces]

\* OnTestMarker going on to the next frame when the location is incomplete
OnTestMarker_SkipsUnlocated(frame) ==
    LET t == TakeAndPush
        idx == Len(frames) + 1
    IN  /\ nr_of_tests' = frame.data.nr_tests
        /\ covered_traces' = t.covered_traces
        /\ IF frame.location # FullLocation
           THEN /\ tests' = t.tests /\ origin' = t.origin /\ current_test' = None
                /\ UNCHANGED <<cpc, cresult>>
           ELSE IF frame.data.state = "running"
           THEN /\ current_test' = Some(NewTest(frame, Failed))
                /\ tests' = t.tests /\ origin' = t.origin
                /\ UNCHANGED <<cpc, cresult>>
           ELSE /\ tests' = Append(t.tests, NewTest(frame, Skipped(None)))
                /\ origin' = Append(t.origin, [opened |-> idx, closed |-> idx])
                /\ current_test' = None
                /\ IF debug_assertions /\ DOMAIN t.covered_traces # {}
                   THEN CovDone([tag |-> "Panic", err |-> "",
                                 msg |-> "Covered traces for ignored test.",
                                 test_runs |-> <<>>])
                   ELSE UNCHANGED <<cpc, cresult>>

\* coverage.rs:76-140
OnTestMarker(frame) ==
    LET t == TakeAndPush
        idx == Len(frames) + 1
    IN  /\ nr_of_tests' = frame.data.nr_tests
        /\ covered_traces' = t.covered_traces
        /\ IF frame.location.file = None
           THEN /\ CovDone(MatchError("Missing file location information"))
                /\ tests' = t.tests /\ origin' = t.origin /\ current_test' = None
           ELSE IF frame.location.line = None \/ frame.location.module_path = None
           THEN /\ CovDone(MatchError("Missing line location information"))
                /\ tests' = t.tests /\ origin' = t.origin /\ current_test' = None
           ELSE IF frame.data.state = "running"
           THEN /\ current_test' = Some(NewTest(frame, Failed))
                /\ tests' = t.tests /\ origin' = t.origin
                /\ UNCHANGED <<cpc, cresult>>
           ELSE /\ tests' = Append(t.tests, NewTest(frame, Skipped(None)))
                /\ origin' = Append(t.origin, [opened |-> idx, closed |-> idx])
                /\ current_test' = None
                /\ IF debug_assertions /\ DOMAIN t.covered_traces # {}
                   THEN CovDone([tag |-> "Panic", err |-> "",
                                 msg |-> "Covered traces for ignored test.",
                                 test_runs |-> <<>>])
                   ELSE UNCHANGED <<cpc, cresult>>

\* coverage.rs:141-149
OnCoverageMarker(frame) ==
    /\ covered_traces' = InsertTrace(covered_traces, frame.data.file,
                                     frame.data.line, frame.data.id)
    /\ UNCHANGED <<current_test, tests, nr_of_tests, origin, cpc, cresult>>

\* coverage.rs:150-156
OnTerminalFrame ==
    LET t == TakeAndPush IN
    /\ tests' = t.tests
    /\ origin' = t.origin
    /\ covered_traces' = t.covered_traces
    /\ current_test' = None
    /\ UNCHANGED <<nr_of_tests, cpc, cresult>>

\* ProcessFrame with any other log line taking the open test away
ProcessFrame_OtherDropsTest(frame) ==
    /\ frames' = Append(frames, frame)
    /\ CASE frame.data.kind = "test" -> OnTestMarker(frame)
         [] frame.data.kind = "coverage" -> OnCoverageMarker(frame)
         [] frame.data.kind = "terminal" -> OnTerminalFrame
         [] OTHER -> /\ current_test' = None
                     /\ UNCHANGED <<covered_traces, tests, nr_of_tests, origin,
                                    cpc, cresult>>

\* coverage.rs:75-157, one iteration of the loop
ProcessFrame(frame) ==
    /\ frames' = Append(frames, frame)
    /\ CASE frame.data.kind = "test" -> OnTestMarker(frame)
         [] frame.data.kind = "coverage" -> OnCoverageMarker(frame)
         [] frame.data.kind = "terminal" -> OnTerminalFrame
         [] OTHER -> UNCHANGED <<current_test, covered_traces, tests,
                                 nr_of_tests, origin, cpc, cresult>>

\* the loop takes the next frame of the slice
CovFrame ==
    /\ cpc = "loop"
    /\ Len(frames) < MaxFrames
    /\ \E frame \in FrameAlphabet : ProcessFrame(frame)
    /\ UNCHANGED debug_assertions
    /\ UNCHANGED <<ovars, dvars, rvars, kvars>>

\* coverage.rs:45-47
NoTestsError == [tag |-> "Err", err |-> "NoTests", msg |-> "", test_runs |-> <<>>]

\* coverage.rs:159-162: the schema with the one test run
OkSchema ==
    [tag |-> "Ok", err |-> "", msg |-> "",
     test_runs |-> << [tests |-> tests, nr_of_tests |-> nr_of_tests] >>]

\* EndOfSlice with the error for a run without tests
EndOfSlice_NoTestsWithoutTest ==
    IF tests = <<>> THEN CovDone(NoTestsError) ELSE CovDone(OkSchema)

\* coverage.rs:45-47, 159-162: the slice is empty, or the loop is through it
EndOfSlice ==
    IF frames = <<>> THEN CovDone(NoTestsError) ELSE CovDone(OkSchema)

\* the slice ends with the frames taken so far
CovReturn ==
    /\ cpc = "loop"
    /\ EndOfSlice
    /\ UNCHANGED <<debug_assertions, frames, current_test, covered_traces, tests,
                   nr_of_tests, origin>>
    /\ UNCHANGED <<ovars, dvars, rvars, kvars>>

----------------------------------------------------------------------------
(* run and run_cmd (src/src/lib.rs) and main (src/src/main.rs)              *)

NoRresult == [tag |-> "None", err |-> ""]
RunOk == [tag |-> "Ok", err |-> ""]
RunErr(e) == [tag |-> "Err", err |-> e]

\* run_cmd, and with it run, returns r
RunReturn(r) ==
    /\ rpc' = "ret"
    /\ rresult' = r

\* the frame the decoder's frame k stands for: frame 1 is the marker of a
\* running test, frame 2 the terminal frame
JsonFrame(k) ==
    IF k = 1 THEN TestMarker("running", "B", 1, FullLocation) ELSE TerminalFrame

\* lib.rs:50, 73-142: the configuration is read, the output directory is
\* created and the pre-runner is run
Setup ==
    /\ rpc = "setup"
    /\ \/ \E e \in {"Config", "Setup", "PreRunner"} : RunReturn(RunErr(e))
       \/ /\ rpc' = "script"
          /\ UNCHANGED rresult
    /\ UNCHANGED <<fs, errlog, exit_code>>
    /\ UNCHANGED <<ovars, dvars, cvars, kvars>>

\* WriteScript leaving the script unwritten
WriteScript_SkipsWrite ==
    /\ rpc = "script"
    /\ \/ /\ RunReturn(RunErr("GdbScript"))
          /\ fs' \in {fs, Append(fs, "embedded.gdb")}
       \/ /\ rpc' = "sequence"
          /\ UNCHANGED <<fs, rresult>>
    /\ UNCHANGED <<errlog, exit_code>>
    /\ UNCHANGED <<ovars, dvars, cvars, kvars>>

\* lib.rs:144-151: the session script is generated and written; a write
\* that fails may have created the file
WriteScript ==
    /\ rpc = "script"
    /\ \/ /\ RunReturn(RunErr("GdbScript"))
          /\ fs' \in {fs, Append(fs, "embedded.gdb")}
       \/ /\ rpc' = "sequence"
          /\ fs' = Append(fs, "embedded.gdb")
          /\ UNCHANGED rresult
    /\ UNCHANGED <<errlog, exit_code>>
    /\ UNCHANGED <<ovars, dvars, cvars, kvars>>

\* SequenceReturned going on whatever the exit status is
SequenceReturned_IgnoresStatus ==
    /\ rpc = "sequence"
    /\ pc = "ret"
    /\ IF result.tag = "Err" THEN RunReturn(RunErr(result.err))
       ELSE IF result.exit = "Err" THEN RunReturn(RunErr(result.err))
       ELSE /\ rpc' = "log"
            /\ UNCHANGED rresult
    /\ UNCHANGED <<fs, errlog, exit_code>>
    /\ UNCHANGED <<ovars, dvars, cvars, kvars>>

\* lib.rs:153-165: run_gdb_sequence(..)?, gdb_result?, and the check of the
\* exit status
SequenceReturned ==
    /\ rpc = "sequence"
    /\ pc = "ret"
    /\ IF result.tag = "Err" THEN RunReturn(RunErr(result.err))
       ELSE IF result.exit = "Err" THEN RunReturn(RunErr(result.err))
       ELSE IF ~result.ok
       THEN RunReturn(RunErr("Gdb: GDB did not run successfully."))
       ELSE /\ rpc' = "log"
            /\ UNCHANGED rresult
    /\ UNCHANGED <<fs, errlog, exit_code>>
    /\ UNCHANGED <<ovars, dvars, cvars, kvars>>

\* lib.rs:167-208: the frame log is created and the frames are written to
\* it; a failed writeln! is ignored
WriteLog ==
    /\ rpc = "log"
    /\ \/ /\ RunReturn(RunErr("Setup"))
          /\ UNCHANGED fs
       \/ /\ rpc' = "meta"
          /\ fs' = Append(fs, "defmt.log")
          /\ UNCHANGED rresult
    /\ UNCHANGED <<errlog, exit_code>>
    /\ UNCHANGED <<ovars, dvars, cvars, kvars>>

\* lib.rs:210-254: the metadata file is read if there is one, then
\* coverage_from_defmt_frames is called on defmt_frames
CallCoverage ==
    /\ rpc = "meta"
    /\ \/ /\ RunReturn(RunErr("Setup"))
          /\ UNCHANGED cpc
       \/ /\ rpc' = "coverage"
          /\ cpc' = "loop"
          /\ UNCHANGED rresult
    /\ UNCHANGED <<fs, errlog, exit_code>>
    /\ UNCHANGED <<debug_assertions, frames, current_test, covered_traces, tests,
                   nr_of_tests, origin, cresult>>
    /\ UNCHANGED <<ovars, dvars, kvars>>

\* coverage.rs:75-157 on the next frame of defmt_frames
ExtractFrame ==
    /\ rpc = "coverage"
    /\ cpc = "loop"
    /\ Len(frames) < Len(defmt_frames)
    /\ ProcessFrame(JsonFrame(defmt_frames[Len(frames) + 1]))
    /\ UNCHANGED debug_assertions
    /\ UNCHANGED <<ovars, dvars, rvars, kvars>>

\* coverage.rs:45-47, 159-162: defmt_frames is empty, or the loop is
\* through it
ExtractReturn ==
    /\ rpc = "coverage"
    /\ cpc = "loop"
    /\ Len(frames) = Len(defmt_frames)
    /\ EndOfSlice
    /\ UNCHANGED <<debug_assertions, frames, current_test, covered_traces, tests,
                   nr_of_tests, origin>>
    /\ UNCHANGED <<ovars, dvars, rvars, kvars>>

\* lib.rs:248-269: an error of the extractor is returned as
\* RunnerError::Coverage, a schema is written to the coverage file; a write
\* that fails may have created the file
WriteCoverage ==
    /\ rpc = "coverage"
    /\ cpc = "done"
    /\ IF cresult.tag = "Ok"
       THEN \/ /\ RunReturn(RunErr("Setup"))
               /\ fs' \in {fs, Append(fs, "coverage.json")}
            \/ /\ rpc' = "post"
               /\ fs' = Append(fs, "coverage.json")
               /\ UNCHANGED rresult
       ELSE /\ RunReturn(RunErr("Coverage"))
            /\ UNCHANGED fs
    /\ UNCHANGED <<errlog, exit_code>>
    /\ UNCHANGED <<ovars, dvars, cvars, kvars>>

\* lib.rs:359-386: the post-runner is run
PostRunner ==
    /\ rpc = "post"
    /\ \/ RunReturn(RunErr("PostRunner"))
       \/ RunReturn(RunOk)
    /\ UNCHANGED <<fs, errlog, exit_code>>
    /\ UNCHANGED <<ovars, dvars, cvars, kvars>>

\* main.rs:4-19: main logs the error of run and returns; it never calls
\* std::process::exit, so the process ends with the exit code of a main
\* that returned
MainExit ==
    /\ rpc = "ret"
    /\ rpc' = "exited"
    /\ IF rresult.tag = "Err"
       THEN errlog' = Append(errlog, "Embedded runner failed")
       ELSE UNCHANGED errlog
    /\ exit_code' = Some(0)
    /\ UNCHANGED <<fs, rresult>>
    /\ UNCHANGED <<ovars, dvars, cvars, kvars>>

RunCmd == Setup \/ WriteScript \/ SequenceReturned \/ WriteLog \/ CallCoverage
          \/ ExtractFrame \/ ExtractReturn \/ WriteCoverage \/ PostRunner
          \/ MainExit

----------------------------------------------------------------------------
(* The collect command (src/src/collect.rs)                                 *)

\* the coverage files an index can list
CoveragePaths == {"a.json", "b.json"}

\* test_runs of the schema a coverage file holds
TestRunsOf(path) == IF path = "a.json" THEN <<"run1">> ELSE <<"run2", "run3">>

\* the lines an index file can hold
IndexLines == UNION { [1 .. n -> CoveragePaths] : n \in 0 .. MaxIndex }

\* cfg.output
OutputOptions == {None, Some("out.json"), Some("out.JSON"), Some("out.txt")}

\* collect.rs:46-49: out.extension() in lower case
ExtensionLower(out) ==
    CASE out = "out.json" -> "json"
      [] out = "out.JSON" -> "json"
      [] OTHER -> "txt"

\* a collect command, the index file, the coverage files and the output
\* file being there or not
InitCollect ==
    /\ RunnerInit
    /\ cpc = "idle"
    /\ debug_assertions = FALSE
    /\ ExtractorLocals
    /\ kpc = "start"
    /\ coverages_file \in {None} \cup {Some(l) : l \in IndexLines}
    /\ on_disk \in SUBSET CoveragePaths
    /\ cfg_output \in OutputOptions
    /\ output_file \in {None, Some(<<"old">>)}
    /\ coverages = <<>>
    /\ line_no = 1
    /\ kresult = NoRresult

CollectReturn(r) ==
    /\ kpc' = "done"
    /\ kresult' = r

\* collect.rs:8-21: without an index file there is nothing to collect; a
\* read of the index that fails panics
CollectStart ==
    /\ kpc = "start"
    /\ IF coverages_file = None
       THEN CollectReturn(RunOk)
       ELSE /\ kpc' \in {"lines", "panicked"}
            /\ UNCHANGED kresult
    /\ UNCHANGED <<coverages_file, on_disk, cfg_output, output_file, coverages,
                   line_no>>
    /\ UNCHANGED <<ovars, dvars, cvars, rvars>>

\* collect.rs:22-37, one line of the index: a listed file that does not
\* exist is logged and skipped; a file that cannot be read or parsed panics
CollectLine ==
    /\ kpc = "lines"
    /\ line_no <= Len(coverages_file[1])
    /\ LET coverage_path == coverages_file[1][line_no] IN
       IF coverage_path \notin on_disk
       THEN /\ line_no' = line_no + 1
            /\ UNCHANGED <<kpc, coverages>>
       ELSE \/ /\ coverages' = coverages \o TestRunsOf(coverage_path)
               /\ line_no' = line_no + 1
               /\ UNCHANGED kpc
            \/ /\ kpc' = "panicked"
               /\ UNCHANGED <<coverages, line_no>>
    /\ UNCHANGED <<coverages_file, on_disk, cfg_output, output_file, kresult>>
    /\ UNCHANGED <<ovars, dvars, cvars, rvars>>

\* collect.rs:39-63: nothing collected, or the output path is chosen
CollectOutput ==
    /\ kpc = "lines"
    /\ line_no > Len(coverages_file[1])
    /\ IF coverages = <<>>
       THEN CollectReturn(RunOk)
       ELSE IF cfg_output # None /\ ExtensionLower(cfg_output[1]) # "json"
       THEN CollectReturn(RunErr("Setup"))
       ELSE /\ kpc' = "write"
            /\ UNCHANGED kresult
    /\ UNCHANGED <<coverages_file, on_disk, cfg_output, output_file, coverages,
                   line_no>>
    /\ UNCHANGED <<ovars, dvars, cvars, rvars>>

\* collect.rs:65-72: a new output file is created and one write is
\* issued, which writes all, a part or (failing) nothing of the content; an
\* output file that exists is overwritten, by a write that can fail before
\* or after the file was truncated.  The result of either write is dropped.
CollectWrite ==
    /\ kpc = "write"
    /\ IF output_file = None
       THEN \/ /\ CollectReturn(RunErr("Setup"))
               /\ UNCHANGED output_file
            \/ /\ kpc' = "remove"
               /\ \E n \in 0 .. Len(coverages) :
                     output_file' = Some(SubSeq(coverages, 1, n))
               /\ UNCHANGED kresult
       ELSE /\ kpc' = "remove"
            /\ \/ UNCHANGED output_file
               \/ \E n \in 0 .. Len(coverages) :
                     output_file' = Some(SubSeq(coverages, 1, n))
            /\ UNCHANGED kresult
    /\ UNCHANGED <<coverages_file, on_disk, cfg_output, coverages, line_no>>
    /\ UNCHANGED <<ovars, dvars, cvars, rvars>>

\* collect.rs:74-77: the index file is removed, the result of the removal
\* is dropped
CollectRemove ==
    /\ kpc = "remove"
    /\ coverages_file' \in {None, coverages_file}
    /\ CollectReturn(RunOk)
    /\ UNCHANGED <<on_disk, cfg_output, output_file, coverages, line_no>>
    /\ UNCHANGED <<ovars, dvars, cvars, rvars>>

----------------------------------------------------------------------------
Orchestrator == Spawn \/ ScanRead \/ SpawnThread \/ TryWait \/ WaitKill
                \/ SignalEnd \/ Join

Decoder == DecConnect \/ DecLoadTable \/ DecCheck \/ DecRead \/ DecDecode

Next == Spawn \/ ScanRead \/ SpawnThread \/ TryWait \/ WaitKill \/ SignalEnd
        \/ Join \/ DecConnect \/ DecLoadTable \/ DecCheck \/ DecRead
        \/ DecDecode \/ GdbEmit \/ GdbExit \/ StderrFault \/ Tick
        \/ Setup \/ WriteScript \/ SequenceReturned \/ WriteLog
        \/ CallCoverage \/ ExtractFrame \/ ExtractReturn \/ WriteCoverage
        \/ PostRunner \/ MainExit

Spec == Init /\ [][Next]_vars

NextCov == CovFrame \/ CovReturn

\* one call of coverage_from_defmt_frames
SpecCov == InitCov /\ [][NextCov]_vars

\* n bytes of diagnostic output that are no part of the marker
Filler(n) == [i \in 1 .. n |-> 46]

\* diagnostic outputs longer than the read buffer: the marker across the end
\* of the first full buffer, no marker, and the marker within the first
\* buffer with more than a buffer of output after it
LongOutputs ==
    { Filler(BufSize - 5) \o rtt_start \o <<10, 10, 10>>,
      Filler(BufSize + 1),
      Filler(3) \o rtt_start \o Filler(BufSize) }

\* run_gdb_sequence at the start of the readiness scan (lib.rs:402-422), the
\* process having a long diagnostic output to write
InitScan ==
    /\ pc = "scan"
    /\ gdb = "running"
    /\ exit_ok = FALSE
    /\ kill_called = FALSE
    /\ gdb_output \in LongOutputs
    /\ pipe = <<>>
    /\ stderr = "open"
    /\ content = <<>>
    /\ elapsed = 0
    /\ end_signal = FALSE
    /\ gdb_result = NoGdbResult
    /\ defmt_frames = <<>>
    /\ result = NoResult
    /\ log = <<"spawned">>
    /\ dpc = "idle"
    /\ platform = "unix"
    /\ can_recover = FALSE
    /\ connected = "no"
    /\ retries = 0
    /\ tcp = "open"
    /\ rx = <<>>
    /\ dbuf = <<>>
    /\ json_frames = <<>>
    /\ lastRead = NoRead
    /\ dres = NoDres
    /\ rpc = "sequence"
    /\ fs = <<"embedded.gdb">>
    /\ rresult = NoRresult
    /\ errlog = <<>>
    /\ exit_code = None
    /\ cpc = "idle"
    /\ debug_assertions = FALSE
    /\ ExtractorLocals
    /\ CollectIdle

NextScan == GdbEmit \/ ScanRead \/ GdbExit \/ StderrFault \/ Tick

\* the readiness scan of one run
SpecScan == InitScan /\ [][NextScan]_vars

NextCollect == CollectStart \/ CollectLine \/ CollectOutput \/ CollectWrite
               \/ CollectRemove

\* one run of the collect command
SpecCollect == InitCollect /\ [][NextCollect]_vars

\* main, the orchestrator, the decode thread and the clock keep running
FairSpec == Init /\ [][Next]_vars /\ WF_vars(RunCmd) /\ WF_vars(Orchestrator)
            /\ WF_vars(Decoder) /\ WF_vars(Tick)

----------------------------------------------------------------------------
(* Properties *)

Range(s) == {s[i] : i \in 1 .. Len(s)}

\* the process-exit wait has resolved: gdb_result is assigned
WaitResolved == gdb_result.tag # "None"

\* C1 (as stated): in every execution the cancellation flag starts false,
\* changes only in the orchestrator's store after the process-exit wait has
\* resolved, only from false to true, and every execution that has returned
\* has set it.
C1_SetInEveryExecution ==
    /\ [](dpc = "idle" => ~end_signal)
    /\ [][end_signal' # end_signal =>
            (pc = "signal" /\ pc' = "join" /\ WaitResolved /\ end_signal')]_vars
    /\ [](pc = "ret" => end_signal)

\* C1 (amended): the flag starts false, changes only in the orchestrator's
\* store after the process-exit wait has resolved, only from false to true
\* (so at most once, and no step of the decode thread changes it); it is set
\* in every execution whose wait resolved and in no execution that returned
\* on a timeout.
C1_FlagSetOnceAfterWait ==
    /\ [](dpc = "idle" => ~end_signal)
    /\ [][end_signal' # end_signal =>
            (pc = "signal" /\ pc' = "join" /\ WaitResolved /\ end_signal')]_vars
    /\ []((pc \in {"join", "ret"} /\ WaitResolved) => end_signal)
    /\ []((pc = "ret" /\ ~WaitResolved) => ~end_signal)

\* C1 witness: the flag was set and the decode thread returned on reading it
C1_Witness ==
    /\ end_signal /\ pc = "ret" /\ result.tag = "Ok"
    /\ lastRead.ev = "timeout"

\* the ways the readiness scan loop ends and goes on to the decode thread
ScanEndEvents == {"marker_seen", "scan_read_failed"}

\* the frame list is written by the decode thread alone, and the
\* orchestrator takes it only in the join of the ended thread
FramesOwnedUntilJoin ==
    /\ [][json_frames' # json_frames => (dpc = "decode" /\ UNCHANGED ovars)]_vars
    /\ [][defmt_frames' # defmt_frames =>
            (pc = "join" /\ dpc = "done" /\ defmt_frames' = json_frames)]_vars
    /\ []((pc = "ret" /\ result.tag = "Ok") =>
            (dpc = "done" /\ result.frames = json_frames))

Last(s) == s[Len(s)]

\* the readiness marker was observed by the scan
MarkerObserved == "marker_seen" \in Range(log)

\* the scan loop has just ended (nothing after it has run yet)
ScanJustEnded ==
    \/ pc = "spawn_thread"
    \/ pc = "ret" /\ "decode_started" \notin Range(log)

\* C3: when the readiness scan is over, the marker was never observed and
\* the setup timeout has elapsed, run_gdb_sequence has killed the process and
\* returned the readiness-timeout error, no decode task was started and no
\* transport connection was attempted.
C3_TimeoutWithoutMarker ==
    (ScanJustEnded /\ ~MarkerObserved /\ elapsed > SetupTimeout) =>
        /\ pc = "ret" /\ result = ErrResult("RttTimeout")
        /\ kill_called /\ gdb # "running"
        /\ dpc = "idle" /\ connected = "no"

\* C4: whatever the debug process does with its diagnostic output, the
\* readiness scan eventually ends.
C4_ReadinessWaitEnds == (pc = "scan") ~> (pc # "scan")

\* C5: the decode task runs, and a transport connection is attempted, only
\* in runs whose scan observed the readiness marker.
C5_DecodeOnlyAfterMarker ==
    (dpc # "idle" \/ connected # "no") => MarkerObserved

\* C6: a return on a timeout leaves no running process behind and was
\* preceded by a kill, and the return on the execution timeout carries
\* ExecutionTimeout, an error other than the readiness timeout.
C6_ExecutionTimeout ==
    /\ (pc = "ret" /\ Last(log) \in {"scan_timeout", "exec_timeout"}) =>
          (kill_called /\ gdb # "running")
    /\ (pc = "ret" /\ Last(log) = "exec_timeout") =>
          (result = ErrResult("ExecutionTimeout") /\ result.err # "RttTimeout")

\* C7: every failed stage (a timeout, an error from waiting on the process,
\* a failed or panicked decode task) makes run_gdb_sequence return the error
\* at once, after a kill of the process.
C7_KillOnStageFailure ==
    /\ (pc = "ret" /\ result.tag = "Err") => kill_called
    /\ (gdb_result.tag = "Err") =>
          (pc = "ret" /\ result.tag = "Err" /\ kill_called /\ ~end_signal)

\* the decode thread is in its read loop
InReadLoop == dpc \in {"check", "read", "decode"}

\* C8: once the cancellation flag is set, the read loop ends only by
\* returning successfully with the frames decoded so far.
C8_ReturnsFramesOnCancel ==
    [][(end_signal /\ InReadLoop /\ ~InReadLoop') =>
          (dpc' = "done" /\ dres'.tag = "Ok" /\ dres'.frames = json_frames')]_vars

\* C9: after a read that reported end of stream or a reset/aborted
\* connection, read_defmt_frames has returned successfully with the frames
\* captured so far, whether or not the cancellation flag is set.
C9_EndOfStreamEndsLoop ==
    (lastRead.ev \in {"eof", "reset", "aborted"}) =>
        (dpc = "done" /\ dres.tag = "Ok" /\ dres.frames = json_frames)

\* C10: a read that times out is retried with the decoder buffer and the
\* frame list unchanged; a read that fails in any other way than timeout or
\* reset/abort makes read_defmt_frames return a transport error, no frames.
C10_TimeoutRetriedOthersFatal ==
    /\ [][(dpc = "read" /\ dpc' # "read" /\ lastRead'.ev = "timeout") =>
            (dpc' = "check" /\ dbuf' = dbuf /\ json_frames' = json_frames)]_vars
    /\ [](lastRead.ev = "broken" =>
            (dpc = "done" /\ dres = [tag |-> "Err", err |-> "TcpError", frames |-> <<>>]))

\* the frames of the complete well-formed spans of a byte stream, in order
RECURSIVE FramesOf(_)
FramesOf(s) ==
    LET z == FirstZero(s, 1) IN
    IF z = 0 THEN <<>>
    ELSE (IF z = 2 THEN <<s[1]>> ELSE <<>>) \o FramesOf(Drop(s, z))

\* a byte stream holds a complete span that is not a frame
RECURSIVE HasMalformedSpan(_)
HasMalformedSpan(s) ==
    LET z == FirstZero(s, 1) IN
    IF z = 0 THEN FALSE
    ELSE z # 2 \/ HasMalformedSpan(Drop(s, z))

IsPrefix(s, t) == Len(s) <= Len(t) /\ SubSeq(t, 1, Len(s)) = s

MalformedFrameError == [tag |-> "Err", err |-> "MalformedFrame", frames |-> <<>>]

\* C11: under a recoverable encoding a malformed span never ends the decode
\* with the malformed-frame error and, once the decoder has worked through
\* the bytes it received, its frames are exactly the well-formed frames of
\* the whole stream, those after a malformed span included; under a
\* non-recoverable encoding the first malformed span the decoder meets makes
\* read_defmt_frames return the malformed-frame error, which carries no frame.
C11_MalformedSkippedOrFatal ==
    /\ dres.err = "MalformedFrame" =>
          (~can_recover /\ HasMalformedSpan(rx) /\ dres = MalformedFrameError)
    /\ (can_recover /\ dpc \in {"check", "read", "done"}) =>
          json_frames = FramesOf(rx)
    /\ (~can_recover /\ HasMalformedSpan(rx) /\ dpc \in {"check", "read", "done"}) =>
          (dpc = "done" /\ dres = MalformedFrameError)

\* a recoverable decode that met a malformed span first and a frame after it
C11_Witness ==
    /\ can_recover
    /\ dpc = "check"
    /\ rx = <<0, 1, 0>>
    /\ json_frames = <<1>>

\* C12: a decode attempt that finds no complete frame ends the inner loop,
\* changes neither the frames nor the buffered bytes nor the result, and
\* takes the decoder to the check of the flag, from where it reads again
\* unless the flag is set; the frames are at every moment the first
\* well-formed frames of the received stream, and all of them whenever the
\* decoder is between two decode runs, so a frame split over several reads is
\* emitted once, after its last byte arrived.
C12_UnexpectedEofKeepsState ==
    /\ [](IsPrefix(json_frames, FramesOf(rx)))
    /\ [](dpc \in {"check", "read"} => json_frames = FramesOf(rx))
    /\ [][(dpc = "decode" /\ StreamDecode(dbuf).r = "UnexpectedEof") =>
            /\ UNCHANGED <<json_frames, dbuf, dres>>
            /\ dpc' \in {"decode", "check"}]_vars
    /\ [][(dpc = "check" /\ dpc' # "check") =>
            dpc' = (IF end_signal THEN "done" ELSE "read")]_vars

\* a frame whose payload and delimiter arrived in two reads
C12_Witness ==
    /\ rx = <<1, 0>>
    /\ lastRead.n = 1
    /\ dpc = "check"
    /\ json_frames = <<1>>

----------------------------------------------------------------------------
(* Properties of coverage_from_defmt_frames *)

FrameKind(k) == frames[k].data.kind

TestMarkerIdx == {k \in 1 .. Len(frames) : FrameKind(k) = "test"}

TerminalIdx == {k \in 1 .. Len(frames) : FrameKind(k) = "terminal"}

\* the coverage markers strictly between two frames
CoverageIdx(lo, hi) ==
    {k \in 1 .. Len(frames) : lo < k /\ k < hi /\ FrameKind(k) = "coverage"}

\* what a coverage marker names
Trace(k) == <<frames[k].data.file, frames[k].data.line, frames[k].data.id>>

TracesIn(lo, hi) == {Trace(k) : k \in CoverageIdx(lo, hi)}

\* what the covered_files of a test name
TracesOf(test) ==
    UNION { UNION { { <<cf.filepath, tr.line, id>> : id \in tr.req_ids } :
                    tr \in cf.covered_traces } : cf \in test.covered_files }

IsRunningMarker(k) ==
    /\ FrameKind(k) = "test"
    /\ frames[k].data.state = "running"
    /\ frames[k].location = FullLocation

IsIgnoringMarker(k) ==
    /\ FrameKind(k) = "test"
    /\ frames[k].data.state = "ignoring"
    /\ frames[k].location = FullLocation

\* coverage_from_defmt_frames returned the run
Returned == cpc = "done" /\ cresult.tag = "Ok"

\* C13: in the returned run the covered_files of a test name only what coverage markers named
\* while that test was open, between the marker that opened it and the frame
\* that finalized it; a coverage marker seen while no test is open reaches
\* no test.
C13_StrayCoverageDiscarded ==
    Returned =>
        \A i \in 1 .. Len(tests) :
            TracesOf(tests[i]) \subseteq TracesIn(origin[i].opened, origin[i].closed)

\* C14: in the returned run, when the test markers of the frames are running A and then running
\* B, and the first terminal frame after A comes after B, the run holds
\* exactly the tests A and B in this order, both Passed, A finalized at B's
\* marker with exactly the coverage markers between the two markers and B
\* finalized at the terminal frame with exactly the coverage markers between
\* its marker and the terminal frame.
C14_TwoRunningTests ==
    \A a, b, e \in 1 .. Len(frames) :
        ( /\ Returned
          /\ a < b /\ b < e
          /\ TestMarkerIdx = {a, b}
          /\ IsRunningMarker(a) /\ frames[a].data.fn_name = "A"
          /\ IsRunningMarker(b) /\ frames[b].data.fn_name = "B"
          /\ FrameKind(e) = "terminal"
          /\ \A k \in TerminalIdx : k < a \/ k >= e )
        => /\ Len(tests) = 2
           /\ tests[1].name = <<"app", "A">> /\ tests[1].state = Passed
           /\ tests[2].name = <<"app", "B">> /\ tests[2].state = Passed
           /\ origin = << [opened |-> a, closed |-> b], [opened |-> b, closed |-> e] >>
           /\ TracesOf(tests[1]) = TracesIn(a, b)
           /\ TracesOf(tests[2]) = TracesIn(b, e)

\* C15: a running marker followed by the terminal frame, with no test marker
\* (and no earlier terminal frame) between them, yields exactly one test: it
\* has the marker's name, is Passed, was finalized at the terminal frame and
\* its covered_files name every coverage marker between the two frames; if
\* the marker is the only test marker of the frames it is the only test.
C15_RunningThenTerminal ==
    \A a, e \in 1 .. Len(frames) :
        ( /\ IsRunningMarker(a)
          /\ a < e
          /\ FrameKind(e) = "terminal"
          /\ \A k \in (a + 1) .. (e - 1) : FrameKind(k) \notin {"test", "terminal"} )
        => /\ Cardinality({i \in 1 .. Len(tests) : origin[i].opened = a}) = 1
           /\ \A i \in 1 .. Len(tests) :
                 origin[i].opened = a =>
                     /\ tests[i].name = <<"app", frames[a].data.fn_name>>
                     /\ tests[i].state = Passed
                     /\ origin[i].closed = e
                     /\ TracesIn(a, e) \subseteq TracesOf(tests[i])
           /\ TestMarkerIdx = {a} => Len(tests) = 1

\* a returned run of a running marker, a coverage marker and the terminal frame
C15_Witness ==
    /\ Returned
    /\ Len(frames) = 3
    /\ IsRunningMarker(1)
    /\ FrameKind(2) = "coverage"
    /\ FrameKind(3) = "terminal"
    /\ Len(tests) = 1
    /\ tests[1].state = Passed
    /\ TracesOf(tests[1]) = {Trace(2)}

\* C16: a test that is open is Failed, and when the frames end with no test
\* marker and no terminal frame after a running marker the returned run holds
\* the test of that marker with state Failed.
C16_OpenTestReportedFailed ==
    /\ current_test # None => current_test[1].state = Failed
    /\ \A a \in 1 .. Len(frames) :
          ( /\ Returned
            /\ IsRunningMarker(a)
            /\ \A k \in (a + 1) .. Len(frames) : FrameKind(k) \notin {"test", "terminal"} )
          => \E i \in 1 .. Len(tests) :
                 /\ tests[i].name = <<"app", frames[a].data.fn_name>>
                 /\ tests[i].state = Failed

FirstTestMarker == CHOOSE k \in TestMarkerIdx : \A j \in TestMarkerIdx : k <= j

\* C17: the nr_of_tests of the returned run is the total of the first test
\* marker of the frames.
C17_TotalFromFirstMarker ==
    (Returned /\ TestMarkerIdx # {}) =>
        nr_of_tests = frames[FirstTestMarker].data.nr_tests

\* the loop takes an "ignoring" marker
IgnoringStep ==
    /\ cpc = "loop"
    /\ Len(frames') = Len(frames) + 1
    /\ frames'[Len(frames')].data.kind = "test"
    /\ frames'[Len(frames')].data.state = "ignoring"
    /\ frames'[Len(frames')].location = FullLocation

SkippedTest == NewTest(frames'[Len(frames')], Skipped(None))

\* C18 as stated: an "ignoring" marker pushes a Skipped test without a reason
\* and with empty covered_files, leaves no test open and leaves the
\* accumulator as it was.
C18_IgnoringLeavesAccumulator ==
    [][IgnoringStep =>
          /\ Last(tests') = SkippedTest
          /\ current_test' = None
          /\ covered_traces' = covered_traces]_vars

\* C18: an "ignoring" marker pushes a Skipped test without a reason and with
\* empty covered_files and leaves no test open; with no test open at the
\* marker nothing else is pushed and the accumulator stays as it was (and a
\* build with debug assertions panics if it is not empty); with a test open
\* that test is first pushed as Passed with the drained accumulator, which
\* is empty afterwards.
C18_IgnoringPushesSkipped ==
    [][IgnoringStep =>
          /\ SkippedTest.state = Skipped(None) /\ SkippedTest.covered_files = {}
          /\ current_test' = None
          /\ IF current_test = None
             THEN /\ tests' = Append(tests, SkippedTest)
                  /\ covered_traces' = covered_traces
                  /\ cresult'.tag = "Panic" <=>
                         (debug_assertions /\ DOMAIN covered_traces # {})
             ELSE /\ tests' = tests \o
                        << [current_test[1] EXCEPT
                              !.state = Passed,
                              !.covered_files = drain_covered_traces(covered_traces)],
                           SkippedTest >>
                  /\ DOMAIN covered_traces' = {}
                  /\ cresult' = cresult]_vars

\* an "ignoring" marker taken while a test with coverage was open
C18_Witness ==
    /\ Len(frames) = 3
    /\ IsRunningMarker(1)
    /\ FrameKind(2) = "coverage"
    /\ IsIgnoringMarker(3)
    /\ Len(tests) = 2
    /\ tests[1].state = Passed /\ TracesOf(tests[1]) = {Trace(2)}
    /\ tests[2].state = Skipped(None)
    /\ DOMAIN covered_traces = {}

\* what the accumulator names
TracesOfMap(m) ==
    UNION { UNION { { <<f, l, id>> : id \in m[f][l] } : l \in DOMAIN m[f] } :
            f \in DOMAIN m }

\* the loop takes a coverage marker
CoverageStep ==
    /\ cpc = "loop"
    /\ Len(frames') = Len(frames) + 1
    /\ frames'[Len(frames')].data.kind = "coverage"

NewTrace ==
    LET d == frames'[Len(frames')].data IN <<d.file, d.line, d.id>>

\* the entries of a test for one file and line
EntriesFor(test, file, line) ==
    { p \in UNION { { <<cf, tr>> : tr \in cf.covered_traces } :
                    cf \in test.covered_files } :
        p[1].filepath = file /\ p[2].line = line }

\* C19: a coverage marker adds what it names to what the accumulator names
\* and changes nothing if the accumulator names it already; two coverage
\* markers of one test with the same file and line end in one
\* CoveredFileTrace of that test, which holds the ids of both.
C19_MarkersAccumulateAsSets ==
    /\ [][CoverageStep =>
            /\ TracesOfMap(covered_traces') = TracesOfMap(covered_traces) \cup {NewTrace}
            /\ NewTrace \in TracesOfMap(covered_traces) =>
                   covered_traces' = covered_traces]_vars
    /\ [](\A i \in 1 .. Len(tests) :
            \A k1, k2 \in CoverageIdx(origin[i].opened, origin[i].closed) :
                (Trace(k1)[1] = Trace(k2)[1] /\ Trace(k1)[2] = Trace(k2)[2]) =>
                    LET es == EntriesFor(tests[i], Trace(k1)[1], Trace(k1)[2]) IN
                    /\ Cardinality(es) = 1
                    /\ \A p \in es : {Trace(k1)[3], Trace(k2)[3]} \subseteq p[2].req_ids)

\* a returned test with one trace that holds two ids
C19_Witness ==
    /\ Returned
    /\ \E i \in 1 .. Len(tests) :
          \E cf \in tests[i].covered_files :
             \E tr \in cf.covered_traces : tr.req_ids = {"R1", "R2"}

\* the frame of the last flush before test i was pushed
PrevFlush(i) ==
    LET closed == {origin[j].closed : j \in {x \in 1 .. (i - 1) : tests[x].state = Passed}}
    IN  IF closed = {} THEN 0 ELSE CHOOSE c \in closed : \A d \in closed : d <= c

\* C20: the covered_files of a test hold one CoveredFile for every file and
\* no two for the same file, a CoveredFile holds at least one trace and no
\* two for the same line, and no trace is without ids; a Passed test names
\* exactly what the coverage markers named that were accumulated for it,
\* those since the flush before it, and any other test names nothing.
C20_OneEntryPerFileAndLine ==
    \A i \in 1 .. Len(tests) :
        LET cfs == tests[i].covered_files IN
        /\ \A cf1, cf2 \in cfs : cf1.filepath = cf2.filepath => cf1 = cf2
        /\ \A cf \in cfs :
              /\ cf.covered_traces # {}
              /\ \A t1, t2 \in cf.covered_traces : t1.line = t2.line => t1 = t2
              /\ \A t \in cf.covered_traces : t.req_ids # {}
        /\ {cf.filepath : cf \in cfs} = {t[1] : t \in TracesOf(tests[i])}
        /\ IF tests[i].state = Passed
           THEN TracesOf(tests[i]) = TracesIn(PrevFlush(i), origin[i].closed)
           ELSE cfs = {}

\* a returned test with two traces in one file
C20_Witness ==
    /\ Returned
    /\ \E i \in 1 .. Len(tests) :
          \E cf \in tests[i].covered_files : Cardinality(cf.covered_traces) = 2

\* C21: coverage_from_defmt_frames ends with the no-frames error exactly when
\* the slice is empty; a slice that is not empty and holds no test marker
\* returns a schema.
C21_NoFramesErrorIffEmpty ==
    cpc = "done" =>
        /\ cresult = NoTestsError <=> frames = <<>>
        /\ cresult.err = "NoTests" <=> frames = <<>>
        /\ (frames # <<>> /\ TestMarkerIdx = {}) => cresult.tag = "Ok"

\* the call with an empty slice
C21_Witness ==
    /\ cpc = "done"
    /\ frames = <<>>
    /\ cresult = NoTestsError

IsUnlocatedMarker(k) ==
    /\ FrameKind(k) = "test"
    /\ frames[k].location # FullLocation

\* C22: once the loop has taken a test marker, running or ignoring, that
\* lacks its file, its line or its module path, coverage_from_defmt_frames
\* has ended with the missing-location error and without a schema, whatever
\* tests were pushed before; the error comes from no other frame, and it
\* names the file when the file is missing.
C22_MissingLocationFails ==
    /\ (\E k \in 1 .. Len(frames) : IsUnlocatedMarker(k)) =>
          /\ cpc = "done"
          /\ cresult.tag = "Err" /\ cresult.err = "Match"
          /\ cresult.test_runs = <<>>
    /\ cresult.err = "Match" =>
          /\ IsUnlocatedMarker(Len(frames))
          /\ \A k \in 1 .. (Len(frames) - 1) : ~IsUnlocatedMarker(k)
          /\ frames[Len(frames)].location.file = None <=>
                 cresult.msg = "Missing file location information"

\* an "ignoring" marker without its module path after a finalized test
C22_Witness ==
    /\ Len(frames) = 3
    /\ IsRunningMarker(1)
    /\ FrameKind(2) = "terminal"
    /\ FrameKind(3) = "test" /\ frames[3].data.state = "ignoring"
    /\ frames[3].location.module_path = None
    /\ Len(tests) = 1
    /\ cresult.err = "Match"

\* C23: a returned schema holds exactly one test run, with the tests pushed
\* in the loop; every test comes from a test marker of the frames, has its
\* name and is Skipped exactly if the marker says "ignoring", and the tests
\* stand in the order of their markers.
C23_OneRunInMarkerOrder ==
    Returned =>
        /\ Len(cresult.test_runs) = 1
        /\ cresult.test_runs[1].tests = tests
        /\ Len(origin) = Len(tests)
        /\ \A i \in 1 .. Len(tests) :
              /\ origin[i].opened \in TestMarkerIdx
              /\ tests[i].name = <<"app", frames[origin[i].opened].data.fn_name>>
              /\ tests[i].state = Skipped(None) <=>
                     frames[origin[i].opened].data.state = "ignoring"
        /\ \A i, j \in 1 .. Len(tests) :
              i < j => origin[i].opened < origin[j].opened

\* a running test finalized by the "ignoring" marker that follows it
C23_Witness ==
    /\ Returned
    /\ Len(frames) = 2
    /\ IsRunningMarker(1) /\ frames[1].data.fn_name = "A"
    /\ IsIgnoringMarker(2) /\ frames[2].data.fn_name = "B"
    /\ Len(tests) = 2
    /\ tests[1].name = <<"app", "A">> /\ tests[1].state = Passed
    /\ tests[2].name = <<"app", "B">> /\ tests[2].state = Skipped(None)

\* the loop takes a frame that is no test marker, no coverage marker and not
\* the terminal frame
OtherStep ==
    /\ cpc = "loop"
    /\ Len(frames') = Len(frames) + 1
    /\ frames'[Len(frames')].data.kind = "other"

\* C24: a frame that is no test marker, no coverage marker and not the
\* terminal frame changes neither the open test nor the accumulator nor the
\* pushed tests nor nr_of_tests nor the outcome, and no test is opened or
\* closed by such a frame; so the returned run does not depend on where such
\* frames stand in a slice that is not empty without them.
C24_OtherFramesInert ==
    /\ [][OtherStep =>
            UNCHANGED <<current_test, covered_traces, tests, nr_of_tests,
                        origin, cpc, cresult>>]_vars
    /\ [](\A i \in 1 .. Len(origin) :
            /\ FrameKind(origin[i].opened) = "test"
            /\ FrameKind(origin[i].closed) \in {"test", "terminal"})

\* another log line taken while a test with coverage is open
C24_Witness ==
    /\ cpc = "loop"
    /\ Len(frames) = 3
    /\ IsRunningMarker(1)
    /\ FrameKind(2) = "coverage"
    /\ FrameKind(3) = "other"
    /\ current_test # None
    /\ TracesOfMap(covered_traces) = {Trace(2)}

\* the coverage file was written, or created by a write that failed
CoverageWritten == "coverage.json" \in Range(fs)

\* the captured frames hold a test marker
TestObserved == \E i \in 1 .. Len(defmt_frames) : JsonFrame(defmt_frames[i]).data.kind = "test"

\* C25: run_cmd gets past the write of the coverage file only when a test
\* was observed in the captured frames, and after a failed extraction there
\* is no coverage file.
C25_CoverageOnlyWithTests ==
    /\ rpc = "post" => TestObserved
    /\ cresult.tag = "Err" => ~CoverageWritten

\* a step that writes a file happens before the process was spawned and
\* the decode thread started, and then it writes the session script, or
\* after run_gdb_sequence joined the thread and returned, the process having
\* exited, and then it writes the frame log or the coverage file
WriteOutsideWindow ==
    fs' # fs =>
        \/ /\ gdb = "none"
           /\ dpc = "idle"
           /\ pc = "spawn"
           /\ fs' = Append(fs, "embedded.gdb")
        \/ /\ gdb = "exited"
           /\ dpc = "done"
           /\ pc = "ret"
           /\ "joined" \in Range(log)
           /\ \E f \in {"defmt.log", "coverage.json"} : fs' = Append(fs, f)

\* C26: no file is written while the debug process and the decode thread
\* run: the session script is there when the process is spawned, and the
\* frame log and the coverage file are written after the join and the return
\* of run_gdb_sequence.
C26_NoWriteInConcurrentWindow ==
    /\ [](gdb # "none" => "embedded.gdb" \in Range(fs))
    /\ [][WriteOutsideWindow]_vars

\* all three files of a run were written
C26_Witness ==
    /\ fs = <<"embedded.gdb", "defmt.log", "coverage.json">>
    /\ rresult = RunOk

\* run_gdb_sequence returned after try_wait gave the exit status
ReturnedAfterExit == pc = "ret" /\ "exit_observed" \in Range(log)

\* run_gdb_sequence returned the exit status of the process as a value
StatusReturned ==
    /\ result.tag = "Ok"
    /\ result.exit = "Ok"
    /\ result.ok = exit_ok

\* run_cmd does not get past a status that is not success: it returns the
\* Gdb error, and neither the frame log nor the coverage file is there
NonSuccessIsFatal ==
    (result.tag = "Ok" /\ result.exit = "Ok" /\ ~result.ok) =>
        /\ rpc \in {"sequence", "ret", "exited"}
        /\ rpc # "sequence" => rresult = RunErr("Gdb: GDB did not run successfully.")
        /\ "defmt.log" \notin Range(fs)
        /\ ~CoverageWritten

\* C27 as claimed: whenever the process exited on its own, run_gdb_sequence
\* returns the exit status as a value, and run_cmd makes a status that is
\* not success a fatal Gdb error without frame log and coverage file.
C27_ExitStatusReturnedAsValue ==
    /\ ReturnedAfterExit => StatusReturned
    /\ NonSuccessIsFatal

\* C27: when the process exited on its own, run_gdb_sequence returns the
\* exit status as a value, success or not, together with the frames if the
\* decode thread returned frames, and the Defmt error if the thread failed
\* or panicked; run_cmd makes a status that is not success a fatal Gdb
\* error without frame log and coverage file.
C27_ExitStatusUnlessDecodeFailed ==
    /\ ReturnedAfterExit =>
          IF dpc = "done" /\ dres.tag = "Ok"
          THEN StatusReturned /\ result.frames = dres.frames
          ELSE /\ result.tag = "Err"
               /\ result.err \in {"Defmt: Failed waiting for defmt logs.",
                                  "Defmt: Failed extracting defmt logs."}
    /\ NonSuccessIsFatal

\* the process exited without success, the status was returned as a value
\* and run returned the Gdb error
C27_Witness ==
    /\ ReturnedAfterExit
    /\ StatusReturned
    /\ ~exit_ok
    /\ rresult = RunErr("Gdb: GDB did not run successfully.")

\* C28: the process ends with exit code 0 when run returned Ok, and with an
\* exit code other than 0 and the error logged when run returned an error.
C28_ExitCodeReflectsResult ==
    rpc = "exited" =>
        IF rresult.tag = "Ok"
        THEN exit_code = Some(0)
        ELSE exit_code # Some(0) /\ errlog # <<>>

RECURSIVE Collected(_, _)
\* the test runs of the files that exist among the first n lines, in the
\* order of the lines
Collected(lines, n) ==
    IF n = 0 THEN <<>>
    ELSE Collected(lines, n - 1)
         \o (IF lines[n] \in on_disk THEN TestRunsOf(lines[n]) ELSE <<>>)

\* C29: a collect run that found a test run has collected the test runs of
\* the listed files that exist, in index order; when it comes to clearing
\* the index, and when it has returned Ok, the output file holds them.
C29_CollectWritesMergedRuns ==
    /\ kpc \in {"write", "remove"} =>
          /\ coverages # <<>>
          /\ coverages = Collected(coverages_file[1], Len(coverages_file[1]))
    /\ kpc = "remove" => output_file = Some(coverages)
    /\ (kpc = "done" /\ kresult = RunOk /\ coverages # <<>>) =>
          output_file = Some(coverages)

\* C30: when run_gdb_sequence has returned, the decode thread was never
\* started, has returned or has panicked.
C30_NoDecodeTaskLeftRunning ==
    pc = "ret" => dpc \in {"idle", "done", "panicked"}

\* the loop takes a frame that finalizes the open test: a Passed test is
\* pushed
FinalizeStep ==
    /\ cpc = "loop"
    /\ Len(frames') = Len(frames) + 1
    /\ \E i \in (Len(tests) + 1) .. Len(tests') : tests'[i].state = Passed

\* the Passed tests whose flush took coverage marker k
FlushedInto(k) ==
    {i \in 1 .. Len(tests) :
        /\ tests[i].state = Passed
        /\ PrevFlush(i) < k /\ k < origin[i].closed}

\* C31: a frame that finalizes a test, a test marker or the terminal frame,
\* leaves the accumulator empty; so every coverage marker is flushed into at
\* most one test, a test names only what the markers flushed into it named,
\* and no marker of the open interval of one test is flushed into a later
\* test.
C31_MarkerInAtMostOneTest ==
    /\ [][FinalizeStep =>
            /\ frames'[Len(frames')].data.kind \in {"test", "terminal"}
            /\ DOMAIN covered_traces' = {}]_vars
    /\ [](/\ \A k \in CoverageIdx(0, Len(frames) + 1) :
                Cardinality(FlushedInto(k)) <= 1
          /\ \A j \in 1 .. Len(tests) :
                /\ TracesOf(tests[j]) \subseteq
                      {Trace(k) : k \in {x \in CoverageIdx(0, Len(frames) + 1) :
                                            j \in FlushedInto(x)}}
                /\ \A i \in 1 .. (j - 1) :
                      \A k \in CoverageIdx(origin[i].opened, origin[i].closed) :
                          j \notin FlushedInto(k))

\* a test was finalized with the coverage of its interval, and the
\* accumulator holds only the coverage marker of the test that is open now
C31_Witness ==
    /\ Len(frames) = 4
    /\ IsRunningMarker(1) /\ FrameKind(2) = "coverage"
    /\ IsRunningMarker(3) /\ FrameKind(4) = "coverage"
    /\ Trace(2) # Trace(4)
    /\ Len(tests) = 1
    /\ TracesOf(tests[1]) = {Trace(2)}
    /\ current_test # None
    /\ TracesOfMap(covered_traces) = {Trace(4)}

\* s holds m as a substring
Contains(s, m) ==
    \E i \in 1 .. (Len(s) - Len(m) + 1) : SubSeq(s, i, i + Len(m) - 1) = m

\* the output accumulated once the read that is due has returned
Accumulated == content \o SubSeq(pipe, 1, Min(Len(pipe), BufSize))

\* a read of the scan returned bytes
ScanReadStep ==
    /\ pc = "scan"
    /\ \/ log' = Append(log, "marker_seen")
       \/ pc' = "scan" /\ content' # content

\* C32: while the scan goes on the output accumulated so far does not hold
\* the marker; a read that returns bytes, at most 100 of them, ends the scan
\* as ready if the accumulated output now holds the marker and goes on
\* scanning with the accumulated output if not.
C32_MarkerFoundAtFirstRead ==
    /\ [](pc = "scan" => ~Contains(content, rtt_start))
    /\ [][ScanReadStep =>
            /\ Len(Accumulated) - Len(content) \in 1 .. BufSize
            /\ IF Contains(Accumulated, rtt_start)
               THEN pc' = "spawn_thread" /\ log' = Append(log, "marker_seen")
               ELSE pc' = "scan" /\ content' = Accumulated /\ log' = log]_vars

\* a read filled the buffer and cut the marker: the scan goes on with the
\* first five bytes of the marker at the end of content and the rest of it
\* in the pipe
C32_Witness ==
    /\ pc = "scan"
    /\ Len(content) = BufSize
    /\ EndsWith(content, SubSeq(rtt_start, 1, 5))
    /\ pipe = Drop(rtt_start, 5) \o <<10, 10, 10>>

\* the decode thread takes a frame out of the decoder's buffer
DecodedFrame ==
    /\ dpc = "decode"
    /\ StreamDecode(dbuf).r = "Ok"
    /\ dbuf' # dbuf

\* C33: json_frames changes only by the push of the frame just decoded,
\* whose bytes leave the decoder's buffer in the same step; every frame that
\* is decoded is pushed, unless the thread panics while it prints the frame;
\* and the list read_defmt_frames returns is json_frames as it is when the
\* loop ends.
C33_FramesAppendOnly ==
    /\ [][json_frames' # json_frames =>
            /\ DecodedFrame
            /\ json_frames' = Append(json_frames, StreamDecode(dbuf).frame)
            /\ dbuf' = StreamDecode(dbuf).rest]_vars
    /\ [][DecodedFrame => Len(json_frames') = Len(json_frames) + 1]_vars
    /\ [](dres.tag = "Ok" => dres.frames = json_frames)
    /\ [](dres.tag = "Err" => dres.frames = <<>>)

\* the thread returned two frames in the order in which they were decoded
C33_Witness ==
    /\ dpc = "done"
    /\ rx = <<1, 0, 2, 0>>
    /\ dres = [tag |-> "Ok", err |-> "", frames |-> <<1, 2>>]

\* the decode thread has ended with an error or has panicked
DecodeFailed == dpc = "panicked" \/ (dpc = "done" /\ dres.tag = "Err")

DefmtErrors ==
    { ErrResult("Defmt: Failed waiting for defmt logs."),
      ErrResult("Defmt: Failed extracting defmt logs.") }

\* run_gdb_sequence returns in this step
ReturnStep == pc # "ret" /\ pc' = "ret"

\* C34: a return of run_gdb_sequence after the decode thread
\* ended with an error or panicked is a return of a Defmt error, without
\* frames and exit status, and the frames and the exit result are returned
\* only when the thread succeeded.
C34_DecodeFailureIsDefmtError ==
    /\ [][(ReturnStep /\ DecodeFailed) => result' \in DefmtErrors]_vars
    /\ []((pc = "ret" /\ result.tag = "Ok") => (dpc = "done" /\ dres.tag = "Ok"))

====
